---- MODULE Spec2Model ----
(***************************************************************************)
(* FAIRGAME, Public Goods Game: the provider connectors (retrying          *)
(* send_prompt), the public-goods payoff matrix, the game's run_round and  *)
(* round loop, its description, and the batch script with save_results.    *)
(*                                                                         *)
(* The specifications of the module:                                       *)
(*   SpecConnector    construction of a connector and its send_prompt loop *)
(*   SpecPayoffCalls  single payoffs and combination keys                  *)
(*   SpecPayoff       scoring rounds and previewing them                   *)
(*   SpecChoices      scoring and previewing choices not configured        *)
(*   SpecGame         PublicGoodsFairGame: construction, rounds, the loop  *)
(*   SpecDescription  description, a caller's edits of it, later prompts   *)
(*   SpecReconfigured rounds of a game whose dictionary a caller edits   *)
(*   SpecBatch        run_public_goods_10_times and save_results           *)
(*   SpecConcurrentSave  save_results of runner processes run at a time    *)
(* Each leaves the variables of the other components unchanged.            *)
(***************************************************************************)
EXTENDS Integers, Sequences, FiniteSets, TLC

VARIABLES
    \* ---- connector (src/llm_connectors/*.py)
    env_key,        \* what os.getenv("API_KEY_<PROVIDER>") returns
    provider,       \* which connector class is constructed
    conn,           \* "none" | "ready" | "EnvironmentError"
    client,         \* TRUE once the provider client object was created
    max_retries,    \* self.max_retries
    retry_delay,    \* self.retry_delay
    sp_pc,          \* send_prompt: "idle" | "running" | "returned" | "raised"
    attempt,        \* the loop variable of send_prompt
    calls,          \* provider calls made by the current send_prompt call
    errors,         \* the exceptions those calls raised, in order
    sleeps,         \* the wait_time of every time.sleep of the current call
    sp_result       \* the value returned, or the exception raised

conn_vars == <<env_key, provider, conn, client, max_retries, retry_delay,
               sp_pc, attempt, calls, errors, sleeps, sp_result>>

VARIABLES
    \* ---- payoff matrix (src/public_goods_payoff_matrix.py)
    pm_made,                \* TRUE once PublicGoodsPayoffMatrix.__init__ returned
    contribution_cost,      \* self.contribution_cost, a rational <<num, den>>
    multiplication_factor,  \* self.multiplication_factor, a rational
    num_agents,             \* self.num_agents
    scores,                 \* scores[i]: the score history of the i-th agent
    round_strategies,       \* the strategy keys of the round at hand
    round_scored,           \* TRUE once the round at hand was scored
    pm_op,                  \* the last payoff-matrix operation called
    pm_arg,                 \* <<agent_contributed, num_contributors>> of the
                            \* last calculate_payoff call
    pm_list,                \* the list the last get_weights_for_combination
                            \* or get_combination_key call was given
    pm_exc,                 \* "None", or the exception the last operation raised
    pm_payoffs,             \* the payoffs the last operation returned
    pm_key                  \* the key the last get_combination_key returned

pm_vars == <<pm_made, contribution_cost, multiplication_factor, num_agents,
             scores, round_strategies, round_scored, pm_op, pm_arg, pm_list,
             pm_exc, pm_payoffs, pm_key>>

VARIABLES
    \* ---- game (src/public_goods_fairgame.py); its payoff matrix is the one
    \* above and its agents' score histories are scores
    game_pc,            \* "none" before __init__, "idle" between run_round
                        \* calls, else the step run_round is at, or "raised"
    current_round,      \* self.current_round
    n_rounds,           \* self.n_rounds
    agents_communicate, \* self.agents_communicate
    choices_made,       \* self.choices_made
    history,            \* self.history.rounds, the Round Records
    round_number,       \* the round number the round runner plays under
    turn,               \* the agent the current phase is at
    messages,           \* the agents that have communicated in this round
    collected,          \* the strategy keys chosen so far in this round
    completed,          \* run_round calls that have returned normally
    game_exc,           \* "None", or the exception run_round raised
    stop_conditions,    \* self.stop_conditions: the choice combinations
                        \* that end the game early
    run_pc              \* the game's round loop: "head" before a round,
                        \* "after_round" once run_round is called, "finished"

game_vars == <<game_pc, current_round, n_rounds, agents_communicate,
               choices_made, history, round_number, turn, messages,
               collected, completed, game_exc, stop_conditions, run_pc>>

\* The round loop's own state, which no step inside run_round touches.
loop_vars == <<stop_conditions, run_pc>>

VARIABLES
    \* ---- the game's configuration dictionary and what is made from it
    \* (src/public_goods_fairgame.py, src/public_goods_prompt_creator.py)
    public_goods_config,    \* the dict object self.public_goods_config
    desc,                   \* <<d>>, d the dict the last description call
                            \* returned; <<>> before any call
    prompt                  \* the last prompt built: its placeholder values,
                            \* or the exception building it raised

config_vars == <<public_goods_config, desc, prompt>>

VARIABLES
    \* ---- the batch script and the results directory
    \* (run_public_goods_10_times.py, public_goods_game_run.py)
    tr_pc,          \* main(): "idle" | "loop" | "child" | "ask" | "completed"
                    \* | "exited"
    tr_i,           \* the loop variable i
    runs_started,   \* subprocess.run calls made
    returncodes,    \* the return codes of the runs that have ended
    child_saved,    \* the run in progress has called save_results
    files,          \* the number parts of the result files of the base pattern
    written         \* the number parts save_results has written, in order

batch_vars == <<tr_pc, tr_i, runs_started, returncodes, child_saved, files,
                written>>

VARIABLES
    \* ---- save_results called by several runner processes at a time
    \* (public_goods_game_run.py)
    sv_pc,          \* per process: "idle" | "scanned" | "written"
    sv_next_number  \* per process: its local next_number, -1 before the scan

save_vars == <<sv_pc, sv_next_number>>

vars == <<conn_vars, pm_vars, game_vars, config_vars, batch_vars, save_vars>>

\* What the operations of one component leave alone: the other components.
outside_conn == <<pm_vars, game_vars, config_vars, batch_vars, save_vars>>

outside_pm == <<conn_vars, game_vars, config_vars, batch_vars, save_vars>>

outside_game == <<conn_vars, batch_vars, save_vars>>

outside_batch == <<conn_vars, pm_vars, game_vars, config_vars, save_vars>>

outside_save == <<conn_vars, pm_vars, game_vars, config_vars>>

(***************************************************************************)
(* Connectors                                                              *)
(***************************************************************************)

\* Largest max_retries a connector is constructed with (the default is 5).
MaxRetries == 5

Providers == {"anthropic", "openai", "mistral"}

\* os.getenv gives None when the variable is unset; an empty string is a
\* set-but-empty variable; "sk" stands for any non-empty secret.
EnvValues == {"None", "", "sk"}

RetryValues == (0 - 1) .. MaxRetries

DelayValues == {1, 2}

\* An exception is its type and, for requests' HTTPError, the response it
\* carries (has_response FALSE is response = None).
Exc(type, has_response, status) ==
    [type |-> type, has_response |-> has_response, status |-> status]

\* What a provider call of connector p can raise: the exception types the
\* connector imports, and ValueError for any type it does not name.
ExceptionsOf(p) ==
    IF p \in {"anthropic", "openai"}
    THEN {Exc(t, FALSE, 0) :
            t \in {"RateLimitError", "APIError", "APITimeoutError", "ValueError"}}
    ELSE {Exc(t, FALSE, 0) : t \in {"Timeout", "ConnectionError", "ValueError"}}
         \cup {Exc("HTTPError", TRUE, st) : st \in {429, 503}}
         \cup {Exc("HTTPError", FALSE, 0)}

\* ExceptClause with the last clause of each connector turned into a retried
\* one (a bare "except Exception" placed with the API errors): the variant
\* C2_NonTransientPropagatesAtOnce is checked to reject.
ExceptClause_CatchAll(p, e) ==
    IF p \in {"anthropic", "openai"}
    THEN CASE e.type = "RateLimitError" -> "rate_limit"
           [] OTHER -> "api_error"
    ELSE CASE e.type = "HTTPError" /\ ~e.has_response -> "handler_raises"
           [] e.type = "HTTPError" /\ e.status = 429 -> "rate_limit"
           [] e.type = "HTTPError" -> "http_error"
           [] OTHER -> "connection_error"

\* The except clause of send_prompt that catches exception e, by provider.
\* In the Mistral connector the HTTPError clause reads e.response.status_code,
\* which itself raises AttributeError when the response is None.
ExceptClause(p, e) ==
    IF p \in {"anthropic", "openai"}
    THEN CASE e.type = "RateLimitError" -> "rate_limit"
           [] e.type \in {"APIError", "APITimeoutError"} -> "api_error"
           [] OTHER -> "unexpected"
    ELSE CASE e.type = "HTTPError" /\ ~e.has_response -> "handler_raises"
           [] e.type = "HTTPError" /\ e.status = 429 -> "rate_limit"
           [] e.type = "HTTPError" -> "http_error"
           [] e.type \in {"Timeout", "ConnectionError"} -> "connection_error"
           [] OTHER -> "unexpected"

RetriedClauses == {"rate_limit", "api_error", "http_error", "connection_error"}

\* WaitTime growing by one base delay per attempt instead of doubling: the
\* variant C18_WaitDoublesUncapped is checked to reject.
WaitTime_Linear(clause, a) ==
    IF clause = "rate_limit" THEN retry_delay * (a + 1) ELSE retry_delay

\* WaitTime with the exponential wait in every retried clause: the variant
\* C19_OtherTransientWaitsBaseDelay is checked to reject.
WaitTime_Exponential(clause, a) == retry_delay * (2 ^ a)

\* wait_time of a retried clause at loop index a.
WaitTime(clause, a) ==
    IF clause = "rate_limit" THEN retry_delay * (2 ^ a) ELSE retry_delay

\* MayRetry off by one (attempt < max_retries): the variant
\* C1_RetriesUpToMaxRetries is checked to reject.
MayRetry_OffByOne(a) == a < max_retries

\* The retry test of every retried clause.
MayRetry(a) == a < max_retries - 1

\* Construct without the credential test: the variant
\* C3_NoCredentialNoConnector is checked to reject.
Construct_NoCheck(p, mr, rd) ==
    /\ conn = "none"
    /\ provider' = p
    /\ conn' = "ready"
    /\ client' = TRUE
    /\ max_retries' = mr
    /\ retry_delay' = rd
    /\ UNCHANGED <<env_key, sp_pc, attempt, calls, errors, sleeps, sp_result>>
    /\ UNCHANGED outside_conn

\* __init__: the credential is read first; without it nothing else is set.
Construct(p, mr, rd) ==
    /\ conn = "none"
    /\ provider' = p
    /\ IF env_key \in {"None", ""}
       THEN /\ conn' = "EnvironmentError"
            /\ UNCHANGED <<client, max_retries, retry_delay>>
       ELSE /\ conn' = "ready"
            /\ client' = TRUE
            /\ max_retries' = mr
            /\ retry_delay' = rd
    /\ UNCHANGED <<env_key, sp_pc, attempt, calls, errors, sleeps, sp_result>>
    /\ UNCHANGED outside_conn

\* send_prompt is entered: range(max_retries) is empty for max_retries <= 0,
\* the loop body never runs and the function falls off its end (None).
SendPromptCall ==
    /\ conn = "ready"
    /\ sp_pc # "running"
    /\ attempt' = 0
    /\ calls' = 0
    /\ errors' = <<>>
    /\ sleeps' = <<>>
    /\ IF max_retries <= 0
       THEN sp_pc' = "returned" /\ sp_result' = "None"
       ELSE sp_pc' = "running" /\ sp_result' = "pending"
    /\ UNCHANGED <<env_key, provider, conn, client, max_retries, retry_delay>>
    /\ UNCHANGED outside_conn

\* One iteration of the loop in which the provider replies.
AttemptReply ==
    /\ sp_pc = "running"
    /\ calls' = calls + 1
    /\ sp_pc' = "returned"
    /\ sp_result' = "reply"
    /\ UNCHANGED <<env_key, provider, conn, client, max_retries, retry_delay,
                   attempt, errors, sleeps>>
    /\ UNCHANGED outside_conn

\* One iteration of the loop in which the provider call raises e: a retried
\* clause sleeps and the loop goes on to the next index, if range(max_retries)
\* has one; every other path re-raises.
AttemptRaises(e) ==
    /\ sp_pc = "running"
    /\ calls' = calls + 1
    /\ errors' = Append(errors, e)
    /\ LET clause == ExceptClause(provider, e) IN
       IF clause \in RetriedClauses /\ MayRetry(attempt)
       THEN /\ sleeps' = Append(sleeps, WaitTime(clause, attempt))
            /\ attempt' = attempt + 1
            /\ IF attempt + 1 < max_retries
               THEN UNCHANGED <<sp_pc, sp_result>>
               ELSE sp_pc' = "returned" /\ sp_result' = "None"
       ELSE /\ sp_pc' = "raised"
            /\ sp_result' = IF clause = "handler_raises"
                            THEN "AttributeError" ELSE e.type
            /\ UNCHANGED <<attempt, sleeps>>
    /\ UNCHANGED <<env_key, provider, conn, client, max_retries, retry_delay>>
    /\ UNCHANGED outside_conn

(***************************************************************************)
(* Rational numbers.  Python computes the payoffs in floating point; the   *)
(* model computes them exactly, as normalised fractions <<num, den>> with  *)
(* den > 0, so 5.0 is <<5, 1>> and 1.25 is <<5, 4>>.                       *)
(***************************************************************************)

Abs(x) == IF x < 0 THEN 0 - x ELSE x

RECURSIVE GCD(_, _)
GCD(a, b) == IF b = 0 THEN a ELSE GCD(b, a % b)

\* The fraction n/d (d # 0) in lowest terms with a positive denominator.
Rat(n, d) ==
    LET g == GCD(Abs(n), Abs(d))
        sn == IF d < 0 THEN 0 - n ELSE n
    IN  <<sn \div g, Abs(d) \div g>>

RInt(i) == <<i, 1>>

RMul(a, b) == Rat(a[1] * b[1], a[2] * b[2])

RDiv(a, b) == Rat(a[1] * b[2], a[2] * b[1])

RSub(a, b) == Rat(a[1] * b[2] - b[1] * a[2], a[2] * b[2])

RAdd(a, b) == Rat(a[1] * b[2] + b[1] * a[2], a[2] * b[2])

RECURSIVE RSum(_)
RSum(seq) == IF seq = <<>> THEN RInt(0) ELSE RAdd(Head(seq), RSum(Tail(seq)))

(***************************************************************************)
(* PublicGoodsPayoffMatrix                                                 *)
(***************************************************************************)

\* Largest number of agents scored in a round.
MaxAgents == 3

\* Largest numAgents of a public_goods_config given to a matrix that is
\* only asked for single payoffs and keys.
MaxNumAgents == 4

\* Rounds scored on one list of agents.
MaxScoreRounds == 1

contribute_key == "strategy1"

\* matrix_data["strategies"]["en"] of the unit tests' fixture, in dict order.
Strategies == << <<"strategy1", "Contribute">>, <<"strategy2", "Free-ride">> >>

StrategyKeys == {Strategies[i][1] : i \in 1..Len(Strategies)}

\* The name a strategy key is shown under in prompts and replies.
StrategyName(key) ==
    LET idx == {i \in 1..Len(Strategies) : Strategies[i][1] = key}
    IN  Strategies[CHOOSE i \in idx : TRUE][2]

\* All lists of length len over the set S.
ListsOf(S, len) == [1..len -> S]

NumContributors(keys) ==
    Cardinality({i \in 1..Len(keys) : keys[i] = contribute_key})

\* __init__ stores the three entries of public_goods_config as they are.
PMConstruct(k, m, n) ==
    /\ ~pm_made
    /\ pm_made' = TRUE
    /\ contribution_cost' = k
    /\ multiplication_factor' = m
    /\ num_agents' = n
    /\ pm_op' = "__init__"
    /\ UNCHANGED <<scores, round_strategies, round_scored, pm_arg, pm_list,
                   pm_exc, pm_payoffs, pm_key>>
    /\ UNCHANGED outside_pm

\* calculate_payoff divides by self.num_agents: Python raises
\* ZeroDivisionError when it is 0, whatever the dividend.
PayoffRaises == num_agents = 0

\* calculate_payoff with negative results clamped to 0: the variant
\* C4_PayoffFormula is checked to reject.
calculate_payoff_Clamped(agent_contributed, num_contributors) ==
    LET total_contributions == RMul(RInt(num_contributors), contribution_cost)
        pool_value == RMul(total_contributions, multiplication_factor)
        equal_share == RDiv(pool_value, RInt(num_agents))
        individual_cost == IF agent_contributed THEN contribution_cost
                           ELSE RInt(0)
        payoff == RSub(equal_share, individual_cost)
    IN  IF payoff[1] < 0 THEN RInt(0) ELSE payoff

\* calculate_payoff, when it does not raise.
calculate_payoff(agent_contributed, num_contributors) ==
    LET total_contributions == RMul(RInt(num_contributors), contribution_cost)
        pool_value == RMul(total_contributions, multiplication_factor)
        equal_share == RDiv(pool_value, RInt(num_agents))
        individual_cost == IF agent_contributed THEN contribution_cost
                           ELSE RInt(0)
    IN  RSub(equal_share, individual_cost)

CalculatePayoffCall(agent_contributed, num_contributors) ==
    /\ pm_made
    /\ pm_op' = "calculate_payoff"
    /\ pm_arg' = <<agent_contributed, num_contributors>>
    /\ pm_list' = <<>>
    /\ pm_key' = ""
    /\ IF PayoffRaises
       THEN pm_exc' = "ZeroDivisionError" /\ pm_payoffs' = <<>>
       ELSE /\ pm_exc' = "None"
            /\ pm_payoffs' =
                 <<calculate_payoff(agent_contributed, num_contributors)>>
    /\ UNCHANGED <<pm_made, contribution_cost, multiplication_factor,
                   num_agents, scores, round_strategies, round_scored>>
    /\ UNCHANGED outside_pm

\* The pairs zip(agents, round_strategies) yields: as many as the shorter list.
ZipLen(agent_scores, strategies) ==
    IF Len(agent_scores) < Len(strategies) THEN Len(agent_scores)
    ELSE Len(strategies)

\* The loop of attribute_scores: the first iteration raises when
\* calculate_payoff does, before any add_score.
AttributeRaises(agent_scores, strategies) ==
    ZipLen(agent_scores, strategies) > 0 /\ PayoffRaises

\* attribute_scores pairing the agents with the choices in reverse order:
\* the variant C6_OnePayoffPerAgentInOrder is checked to reject.
attribute_scores_Reversed(agent_scores, strategies) ==
    LET num_contributors ==
          Cardinality({i \in 1..Len(strategies) : strategies[i] = "strategy1"})
        zipped == IF Len(agent_scores) < Len(strategies)
                  THEN Len(agent_scores) ELSE Len(strategies)
    IN  [i \in 1..Len(agent_scores) |->
           IF i <= zipped
           THEN Append(agent_scores[i],
                       calculate_payoff(
                           strategies[zipped + 1 - i] = "strategy1",
                           num_contributors))
           ELSE agent_scores[i]]

\* attribute_scores adding a score to the contributors only: the variant
\* C20_ScoresPerCompletedRound is checked to reject.
attribute_scores_ContributorsOnly(agent_scores, strategies) ==
    LET num_contributors ==
          Cardinality({i \in 1..Len(strategies) : strategies[i] = "strategy1"})
    IN  [i \in 1..Len(agent_scores) |->
           IF i <= Len(strategies) /\ strategies[i] = "strategy1"
           THEN Append(agent_scores[i],
                       calculate_payoff(TRUE, num_contributors))
           ELSE agent_scores[i]]

\* attribute_scores, when it does not raise: the score lists afterwards.
attribute_scores(agent_scores, strategies) ==
    LET num_contributors == NumContributors(strategies)
    IN  [i \in 1..Len(agent_scores) |->
           IF i <= ZipLen(agent_scores, strategies)
           THEN Append(agent_scores[i],
                       calculate_payoff(strategies[i] = contribute_key,
                                        num_contributors))
           ELSE agent_scores[i]]

\* The round runner hands over the strategy keys of a new round, one per agent.
NewRound(strategies) ==
    /\ pm_made
    /\ Len(strategies) = Len(scores)
    /\ \A i \in 1..Len(scores) : Len(scores[i]) < MaxScoreRounds
    /\ round_strategies' = strategies
    /\ round_scored' = FALSE
    /\ pm_op' = "round"
    /\ UNCHANGED <<pm_made, contribution_cost, multiplication_factor,
                   num_agents, scores, pm_arg, pm_list, pm_exc, pm_payoffs,
                   pm_key>>
    /\ UNCHANGED outside_pm

AttributeScoresCall ==
    /\ pm_made
    /\ ~round_scored
    /\ pm_op' = "attribute_scores"
    /\ pm_payoffs' = <<>>
    /\ IF AttributeRaises(scores, round_strategies)
       THEN /\ pm_exc' = "ZeroDivisionError"
            /\ UNCHANGED <<scores, round_scored>>
       ELSE /\ pm_exc' = "None"
            /\ scores' = attribute_scores(scores, round_strategies)
            /\ round_scored' = TRUE
    /\ UNCHANGED <<pm_made, contribution_cost, multiplication_factor,
                   num_agents, round_strategies, pm_arg, pm_list, pm_key>>
    /\ UNCHANGED outside_pm

\* NameToKeyGet without the name-to-key conversion (the name is taken for
\* the key): the variant C9_PreviewMatchesScoring is checked to reject.
NameToKeyGet_Identity(strategy_name) == strategy_name

\* name_to_key = {name: key for key, name in self.strategies.items()}, then
\* name_to_key.get(name): the last key listed under the name, None without one.
NameToKeyGet(strategy_name) ==
    LET idx == {i \in 1..Len(Strategies) : Strategies[i][2] = strategy_name}
    IN  IF idx = {} THEN "None"
        ELSE Strategies[CHOOSE i \in idx : \A j \in idx : j <= i][1]

\* get_weights_for_combination, when it does not raise.
get_weights_for_combination(strategy_list) ==
    LET key_list == [i \in 1..Len(strategy_list) |->
                       NameToKeyGet(strategy_list[i])]
        num_contributors == NumContributors(key_list)
    IN  [i \in 1..Len(key_list) |->
           calculate_payoff(key_list[i] = contribute_key, num_contributors)]

GetWeightsCall(strategy_list) ==
    /\ pm_made
    /\ pm_op' = "get_weights_for_combination"
    /\ pm_list' = strategy_list
    /\ IF Len(strategy_list) > 0 /\ PayoffRaises
       THEN pm_exc' = "ZeroDivisionError" /\ pm_payoffs' = <<>>
       ELSE /\ pm_exc' = "None"
            /\ pm_payoffs' = get_weights_for_combination(strategy_list)
    /\ UNCHANGED <<pm_made, contribution_cost, multiplication_factor,
                   num_agents, scores, round_strategies, round_scored, pm_arg,
                   pm_key>>
    /\ UNCHANGED outside_pm

\* The names the strategy keys of the round at hand are shown under.
RoundNames == [i \in 1..Len(round_strategies) |->
                 StrategyName(round_strategies[i])]

\* get_combination_key counting only the contributors listed before the
\* first free-rider: the variant C7_KeyCountsContributors is checked to reject.
get_combination_key_Leading(strategies) ==
    LET others == {i \in 1..Len(strategies) : strategies[i] # "strategy1"}
        leading == IF others = {} THEN Len(strategies)
                   ELSE (CHOOSE i \in others : \A j \in others : i <= j) - 1
    IN  "combination_" \o ToString(leading) \o "_contributors"

\* get_combination_key: the f-string around the decimal contributor count.
get_combination_key(strategies) ==
    "combination_" \o ToString(NumContributors(strategies)) \o "_contributors"

GetCombinationKeyCall(strategies) ==
    /\ pm_made
    /\ pm_op' = "get_combination_key"
    /\ pm_list' = strategies
    /\ pm_arg' = <<FALSE, 0>>
    /\ pm_exc' = "None"
    /\ pm_payoffs' = <<>>
    /\ pm_key' = get_combination_key(strategies)
    /\ UNCHANGED <<pm_made, contribution_cost, multiplication_factor,
                   num_agents, scores, round_strategies, round_scored>>
    /\ UNCHANGED outside_pm

(***************************************************************************)
(* PublicGoodsFairGame.  run_round is in the source; the round runner it   *)
(* delegates to (GameRound.run, _update_round_history) is modelled from    *)
(* the specification of the Game Round.                                    *)
(***************************************************************************)

\* Agents of a game.
NumPlayers == 2

\* run_round calls made on one game.
MaxRounds == 2

\* The payoff-matrix variables no step of the game touches after __init__.
pm_config == <<pm_made, contribution_cost, multiplication_factor, num_agents>>

pm_results == <<round_strategies, round_scored, pm_op, pm_arg, pm_list,
                pm_exc, pm_payoffs, pm_key>>

\* __init__: the fields are set, current_round to 1, the history and
\* choices_made are empty, and the payoff matrix is built from
\* public_goods_config as it is.
GameConstruct(rounds, communicate, stops, k, m, n) ==
    /\ game_pc = "none"
    /\ game_pc' = "idle"
    /\ n_rounds' = rounds
    /\ agents_communicate' = communicate
    /\ stop_conditions' = stops
    /\ run_pc' = "head"
    /\ current_round' = 1
    /\ history' = <<>>
    /\ choices_made' = <<>>
    /\ pm_made' = TRUE
    /\ contribution_cost' = k
    /\ multiplication_factor' = m
    /\ num_agents' = n
    /\ UNCHANGED <<round_number, turn, messages, collected, completed,
                   game_exc>>
    /\ public_goods_config' = [contributionCost |-> k,
                                multiplicationFactor |-> m, numAgents |-> n]
    /\ UNCHANGED <<scores, pm_results, desc, prompt, outside_game>>

\* RunRoundCall with the history created per round rather than once in
\* __init__: the variant C11_HistoryAppendOnly is checked to reject.
RunRoundCall_FreshHistory ==
    /\ game_pc = "idle"
    /\ run_pc = "head"
    /\ completed < MaxRounds
    /\ run_pc' = "after_round"
    /\ history' = <<>>
    /\ round_number' = current_round
    /\ turn' = 1
    /\ messages' = <<>>
    /\ collected' = <<>>
    /\ game_pc' = IF agents_communicate THEN "communicate" ELSE "choose"
    /\ UNCHANGED <<current_round, n_rounds, agents_communicate, choices_made,
                   completed, game_exc, stop_conditions>>
    /\ UNCHANGED <<scores, pm_config, pm_results, config_vars, outside_game>>

\* run_round, first statement: the round runner is created for the game's
\* current round and run() starts with the first agent.
RunRoundCall ==
    /\ game_pc = "idle"
    /\ run_pc = "head"
    /\ completed < MaxRounds
    /\ run_pc' = "after_round"
    /\ UNCHANGED stop_conditions
    /\ round_number' = current_round
    /\ turn' = 1
    /\ messages' = <<>>
    /\ collected' = <<>>
    /\ game_pc' = IF agents_communicate THEN "communicate" ELSE "choose"
    /\ UNCHANGED <<current_round, n_rounds, agents_communicate, choices_made,
                   history, completed, game_exc>>
    /\ UNCHANGED <<scores, pm_config, pm_results, config_vars, outside_game>>

\* map_placeholders divides by numAgents of the configuration dictionary.
PromptRaises(cfg) == cfg.numAgents = 0

\* map_placeholders with the net solo example left gross (the cost not
\* subtracted): the variant C24_ExamplesMatchPayoffs is checked to reject.
map_placeholders_GrossSolo(cfg) ==
    LET cost == cfg.contributionCost
        multiplier == cfg.multiplicationFactor
        n == RInt(cfg.numAgents)
        total_if_all_contribute == RMul(cost, n)
        payoff_if_all_contribute ==
            RDiv(RMul(total_if_all_contribute, multiplier), n)
        solo_contribution_return == RDiv(RMul(cost, multiplier), n)
    IN  [contributionCost |-> cost,
         multiplicationFactor |-> multiplier,
         numAgents |-> cfg.numAgents,
         totalIfAllContribute |-> total_if_all_contribute,
         payoffIfAllContribute |-> payoff_if_all_contribute,
         netGainIfAllContribute |-> RSub(payoff_if_all_contribute, cost),
         soloContributionReturn |-> solo_contribution_return,
         soloContributionNet |-> solo_contribution_return]

\* map_placeholders, when it does not raise: the public-goods placeholder
\* values, read from the configuration dictionary handed to the prompt
\* creator.
map_placeholders(cfg) ==
    LET cost == cfg.contributionCost
        multiplier == cfg.multiplicationFactor
        n == RInt(cfg.numAgents)
        total_if_all_contribute == RMul(cost, n)
        payoff_if_all_contribute ==
            RDiv(RMul(total_if_all_contribute, multiplier), n)
        solo_contribution_return == RDiv(RMul(cost, multiplier), n)
    IN  [contributionCost |-> cost,
         multiplicationFactor |-> multiplier,
         numAgents |-> cfg.numAgents,
         totalIfAllContribute |-> total_if_all_contribute,
         payoffIfAllContribute |-> payoff_if_all_contribute,
         netGainIfAllContribute |-> RSub(payoff_if_all_contribute, cost),
         soloContributionReturn |-> solo_contribution_return,
         soloContributionNet |-> RSub(solo_contribution_return, cost)]

\* run(), communication phase: the prompt of the agent at turn is built from
\* the game's configuration dictionary, then its connector replies or raises.
Communicate(replied) ==
    /\ game_pc = "communicate"
    /\ IF PromptRaises(public_goods_config)
       THEN /\ game_pc' = "raised"
            /\ game_exc' = "ZeroDivisionError"
            /\ UNCHANGED <<messages, turn, prompt>>
       ELSE /\ prompt' = [exc |-> "None",
                            values |-> <<map_placeholders(public_goods_config)>>]
            /\ IF replied
               THEN /\ messages' = Append(messages, turn)
                    /\ turn' = IF turn = NumPlayers THEN 1 ELSE turn + 1
                    /\ game_pc' = IF turn = NumPlayers
                                  THEN "choose" ELSE "communicate"
                    /\ UNCHANGED game_exc
               ELSE /\ game_pc' = "raised"
                    /\ game_exc' = "ProviderError"
                    /\ UNCHANGED <<messages, turn>>
    /\ UNCHANGED <<current_round, n_rounds, agents_communicate, choices_made,
                   history, round_number, collected, completed>>
    /\ UNCHANGED loop_vars
    /\ UNCHANGED <<scores, pm_config, pm_results, public_goods_config, desc,
                   outside_game>>

\* run(), choice phase: the prompt of the agent at turn is built, the agent
\* is prompted and its reply parsed to a strategy key, or its connector
\* raises.  run() returns after the last agent.
Choose(replied, key) ==
    /\ game_pc = "choose"
    /\ IF PromptRaises(public_goods_config)
       THEN /\ game_pc' = "raised"
            /\ game_exc' = "ZeroDivisionError"
            /\ UNCHANGED <<collected, turn, prompt>>
       ELSE /\ prompt' = [exc |-> "None",
                            values |-> <<map_placeholders(public_goods_config)>>]
            /\ IF replied
               THEN /\ collected' = Append(collected, key)
                    /\ turn' = IF turn = NumPlayers THEN 1 ELSE turn + 1
                    /\ game_pc' = IF turn = NumPlayers
                                  THEN "collected" ELSE "choose"
                    /\ UNCHANGED game_exc
               ELSE /\ game_pc' = "raised"
                    /\ game_exc' = "ProviderError"
                    /\ UNCHANGED <<collected, turn>>
    /\ UNCHANGED <<current_round, n_rounds, agents_communicate, choices_made,
                   history, round_number, messages, completed>>
    /\ UNCHANGED loop_vars
    /\ UNCHANGED <<scores, pm_config, pm_results, public_goods_config, desc,
                   outside_game>>

\* AppendChoices with the round runner's exception caught and the choices
\* collected so far appended all the same: the variant
\* C14_ConnectorFailureAbortsRun is checked to reject.
AppendChoices_AfterFailure ==
    /\ \/ game_pc = "collected"
       \/ game_pc = "raised" /\ game_exc = "ProviderError"
    /\ choices_made' = Append(choices_made, collected)
    /\ game_pc' = "appended"
    /\ UNCHANGED <<current_round, n_rounds, agents_communicate, history,
                   round_number, turn, messages, collected, completed,
                   game_exc>>
    /\ UNCHANGED loop_vars
    /\ UNCHANGED <<scores, pm_config, pm_results, config_vars, outside_game>>

\* AppendChoices without the append: the variant
\* C12_RunsUntilStopOrNRounds is checked to reject.
AppendChoices_Skip ==
    /\ game_pc = "collected"
    /\ game_pc' = "appended"
    /\ UNCHANGED <<current_round, n_rounds, agents_communicate, history,
                   round_number, turn, messages, collected, completed,
                   game_exc, choices_made>>
    /\ UNCHANGED loop_vars
    /\ UNCHANGED <<scores, pm_config, pm_results, config_vars, outside_game>>

\* run_round, third statement: self.choices_made.append(round_strategies).
AppendChoices ==
    /\ game_pc = "collected"
    /\ choices_made' = Append(choices_made, collected)
    /\ game_pc' = "appended"
    /\ UNCHANGED <<current_round, n_rounds, agents_communicate, history,
                   round_number, turn, messages, collected, completed,
                   game_exc>>
    /\ UNCHANGED loop_vars
    /\ UNCHANGED <<scores, pm_config, pm_results, config_vars, outside_game>>

\* ScoreRound with the scoring left out of run_round: the variant
\* C21_RoundStepsInOrder is checked to reject.
ScoreRound_Deferred ==
    /\ game_pc = "appended"
    /\ game_pc' = "scored"
    /\ UNCHANGED <<current_round, n_rounds, agents_communicate, choices_made,
                   history, round_number, turn, messages, collected,
                   completed, game_exc, scores>>
    /\ UNCHANGED loop_vars
    /\ UNCHANGED <<pm_config, pm_results, config_vars, outside_game>>

\* run_round, fourth statement: attribute_scores on the agents in dict order.
ScoreRound ==
    /\ game_pc = "appended"
    /\ IF AttributeRaises(scores, collected)
       THEN /\ game_pc' = "raised"
            /\ game_exc' = "ZeroDivisionError"
            /\ UNCHANGED scores
       ELSE /\ game_pc' = "scored"
            /\ scores' = attribute_scores(scores, collected)
            /\ UNCHANGED game_exc
    /\ UNCHANGED <<current_round, n_rounds, agents_communicate, choices_made,
                   history, round_number, turn, messages, collected,
                   completed>>
    /\ UNCHANGED loop_vars
    /\ UNCHANGED <<pm_config, pm_results, config_vars, outside_game>>

\* run_round, last statement: the round runner appends the Round Record,
\* and run_round returns.
UpdateRoundHistory ==
    /\ game_pc = "scored"
    /\ history' = Append(history, [round |-> round_number,
                                   strategies |-> collected,
                                   messages |-> messages])
    /\ game_pc' = "idle"
    /\ completed' = completed + 1
    /\ UNCHANGED <<current_round, n_rounds, agents_communicate, choices_made,
                   round_number, turn, messages, collected, game_exc>>
    /\ UNCHANGED loop_vars
    /\ UNCHANGED <<scores, pm_config, pm_results, config_vars, outside_game>>

\* The round every agent answers with the same strategy key.
AllChoose(key) == [i \in 1..NumPlayers |-> key]

\* Stop-condition lists of the configurations tried: none, universal
\* free-riding, and either unanimous round.
StopValues == {{}, {AllChoose("strategy2")},
               {AllChoose("strategy1"), AllChoose("strategy2")}}

\* Early termination: the choice combination of the round just played is
\* one of the configured stop conditions (exact match).
StopConditionMatches ==
    /\ choices_made # <<>>
    /\ choices_made[Len(choices_made)] \in stop_conditions

\* The game's round loop, after run_round has returned: the game is finished
\* when the round matches a stop condition or n_rounds rounds have
\* completed; otherwise the loop goes on to the next round.
AfterRound ==
    /\ game_pc = "idle"
    /\ run_pc = "after_round"
    /\ run_pc' = IF StopConditionMatches \/ completed >= n_rounds
                 THEN "finished" ELSE "head"
    /\ UNCHANGED <<game_pc, current_round, n_rounds, agents_communicate,
                   choices_made, history, round_number, turn, messages,
                   collected, completed, game_exc, stop_conditions>>
    /\ UNCHANGED <<scores, pm_config, pm_results, config_vars, outside_game>>

(***************************************************************************)
(* PublicGoodsFairGame.description and the prompts.  A Python dict is an   *)
(* object: the entry "public_goods_config" of the returned dict holds the  *)
(* game's own dictionary object, not its contents.                         *)
(***************************************************************************)

\* The property description: a new dict whose scalar entries are values and
\* whose public_goods_config entry is the object self.public_goods_config.
description ==
    [n_rounds |-> n_rounds,
     agents_communicate |-> agents_communicate,
     public_goods_config |-> [object |-> "self.public_goods_config"]]

DescriptionCall ==
    /\ game_pc = "idle"
    /\ desc' = <<description>>
    /\ UNCHANGED <<public_goods_config, prompt>>
    /\ UNCHANGED <<game_vars, pm_vars, outside_game>>

\* The caller assigns a top-level entry of the returned dict:
\* d["n_rounds"] = value.
SetItem(value) ==
    /\ desc # <<>>
    /\ desc' = <<[desc[1] EXCEPT !.n_rounds = value]>>
    /\ UNCHANGED <<public_goods_config, prompt>>
    /\ UNCHANGED <<game_vars, pm_vars, outside_game>>

\* The caller assigns an entry of the nested dict:
\* d["public_goods_config"][key] = value.  The nested dict is the object
\* the entry holds.
SetNestedItem(key, value) ==
    /\ desc # <<>>
    /\ desc[1].public_goods_config.object = "self.public_goods_config"
    /\ public_goods_config' = [public_goods_config EXCEPT ![key] = value]
    /\ UNCHANGED <<desc, prompt>>
    /\ UNCHANGED <<game_vars, pm_vars, outside_game>>

\* create_prompt: the prompt creator is given self.game.public_goods_config
\* and fills the template from it.
CreatePromptCall ==
    /\ game_pc = "idle"
    /\ prompt' = IF PromptRaises(public_goods_config)
                 THEN [exc |-> "ZeroDivisionError", values |-> <<>>]
                 ELSE [exc |-> "None",
                       values |-> <<map_placeholders(public_goods_config)>>]
    /\ UNCHANGED <<public_goods_config, desc>>
    /\ UNCHANGED <<game_vars, pm_vars, outside_game>>

(***************************************************************************)
(* save_results (public_goods_game_run.py) and the batch script            *)
(* run_public_goods_10_times.py.  A result file is named                   *)
(* <base_pattern>_<rest>.csv; the model keeps <rest>, a sequence of        *)
(* characters, for every file the glob <base_pattern>_*.csv matches.       *)
(***************************************************************************)

DigitChars == <<"0", "1", "2", "3", "4", "5", "6", "7", "8", "9">>

\* The value of a digit character.
DigitValue(ch) == (CHOOSE d \in 1..10 : DigitChars[d] = ch) - 1

IsDigit(ch) == \E d \in 1..10 : DigitChars[d] = ch

\* filename.split('_')[-1]: what follows the last underscore.
RECURSIVE number_part(_)
number_part(rest) ==
    IF \E i \in 1..Len(rest) : rest[i] = "_"
    THEN number_part(Tail(rest))
    ELSE rest

\* int(number_part) raises ValueError unless the text is a decimal number.
IntRaises(text) == text = <<>> \/ \E i \in 1..Len(text) : ~IsDigit(text[i])

\* int(number_part) of a decimal number.
RECURSIVE int(_)
int(text) ==
    IF text = <<>> THEN 0
    ELSE 10 * int(SubSeq(text, 1, Len(text) - 1)) + DigitValue(text[Len(text)])

\* f"{next_number}": the decimal digits of a number >= 0, no leading zero.
RECURSIVE str(_)
str(n) ==
    IF n < 10 THEN <<DigitChars[n + 1]>>
    ELSE Append(str(n \div 10), DigitChars[(n % 10) + 1])

\* The numbers the loop of save_results reads off the existing files.
ExistingNumbers(existing_files) ==
    {int(number_part(f)) : f \in {g \in existing_files : ~IntRaises(number_part(g))}}

\* next_number taken as the count of the existing files: the variant
\* C17_SuffixIsNextFree is checked to reject.
next_number_Count(existing_files) == Cardinality(existing_files)

\* next_number = max_number + 1, max_number starting at -1.
next_number(existing_files) ==
    LET numbers == ExistingNumbers(existing_files) \cup {0 - 1}
    IN  (CHOOSE m \in numbers : \A x \in numbers : x <= m) + 1

\* FileManager.save_results_csv: the file of that name exists afterwards.
save_results_csv(existing_files, rest) == existing_files \cup {rest}

\* range(1, 5) of the batch loop.
RangeStart == 1

RangeStop == 5

\* main() of the batch script starts: the loop variable takes the first
\* value of the range.
MainStart ==
    /\ tr_pc = "idle"
    /\ tr_pc' = "loop"
    /\ tr_i' = RangeStart
    /\ UNCHANGED <<runs_started, returncodes, child_saved, files, written>>
    /\ UNCHANGED outside_batch

\* One iteration begins: subprocess.run starts public_goods_game_run.py and
\* waits for it.
StartRun ==
    /\ tr_pc = "loop"
    /\ tr_i < RangeStop
    /\ tr_pc' = "child"
    /\ runs_started' = runs_started + 1
    /\ child_saved' = FALSE
    /\ UNCHANGED <<tr_i, returncodes, files, written>>
    /\ UNCHANGED outside_batch

\* The run in progress reaches save_results: the existing files of the base
\* pattern are listed, the next number is picked and the file is written.
SaveResults ==
    /\ tr_pc = "child"
    /\ ~child_saved
    /\ LET rest == str(next_number(files))
       IN  /\ files' = save_results_csv(files, rest)
           /\ written' = Append(written, rest)
    /\ child_saved' = TRUE
    /\ UNCHANGED <<tr_pc, tr_i, runs_started, returncodes>>
    /\ UNCHANGED outside_batch

\* The run ends: with code 0 when its main() returned, which is after
\* save_results; with another code when an exception ended it before.
\* The batch loop goes on after code 0 and asks the user otherwise.
ChildExits(returncode) ==
    /\ tr_pc = "child"
    /\ (returncode = 0) = child_saved
    /\ returncodes' = Append(returncodes, returncode)
    /\ IF returncode # 0
       THEN tr_pc' = "ask" /\ UNCHANGED tr_i
       ELSE tr_pc' = "loop" /\ tr_i' = tr_i + 1
    /\ UNCHANGED <<runs_started, child_saved, files, written>>
    /\ UNCHANGED outside_batch

\* The user's answer to "Continue with next run? (y/n)".
Answer(yes) ==
    /\ tr_pc = "ask"
    /\ IF yes
       THEN tr_pc' = "loop" /\ tr_i' = tr_i + 1
       ELSE tr_pc' = "exited" /\ UNCHANGED tr_i
    /\ UNCHANGED <<runs_started, returncodes, child_saved, files, written>>
    /\ UNCHANGED outside_batch

\* The range is exhausted: "ALL 10 RUNS COMPLETED!" is printed.
LoopEnd ==
    /\ tr_pc = "loop"
    /\ tr_i >= RangeStop
    /\ tr_pc' = "completed"
    /\ UNCHANGED <<tr_i, runs_started, returncodes, child_saved, files,
                   written>>
    /\ UNCHANGED outside_batch

(***************************************************************************)
(* save_results run by several runner processes on one results directory.  *)
(* Each process lists the directory, computes its next_number, and writes  *)
(* the file afterwards; the save_results of another process may run in     *)
(* between.                                                                *)
(***************************************************************************)

\* Runner processes saving at a time.
NumSavers == 2

Savers == 1..NumSavers

\* save_results of process p, up to next_number = max_number + 1: the glob
\* lists the files that exist now.
ScanResults(p) ==
    /\ sv_pc[p] = "idle"
    /\ sv_next_number' = [sv_next_number EXCEPT ![p] = next_number(files)]
    /\ sv_pc' = [sv_pc EXCEPT ![p] = "scanned"]
    /\ UNCHANGED batch_vars
    /\ UNCHANGED outside_save

\* save_results of process p, the rest: the filename is formatted from the
\* next_number computed before and the file is written.
WriteResults(p) ==
    /\ sv_pc[p] = "scanned"
    /\ LET rest == str(sv_next_number[p])
       IN  /\ files' = save_results_csv(files, rest)
           /\ written' = Append(written, rest)
    /\ sv_pc' = [sv_pc EXCEPT ![p] = "written"]
    /\ UNCHANGED <<tr_pc, tr_i, runs_started, returncodes, child_saved,
                   sv_next_number>>
    /\ UNCHANGED outside_save

(***************************************************************************)
(* Specifications                                                          *)
(***************************************************************************)

\* No payoff matrix yet; the agents are the n_scored listed, none scored.
PayoffIdle(n_scored) ==
    /\ pm_made = FALSE
    /\ contribution_cost = RInt(0)
    /\ multiplication_factor = RInt(0)
    /\ num_agents = 0
    /\ scores = [i \in 1..n_scored |-> <<>>]
    /\ round_strategies = <<>>
    /\ round_scored = TRUE
    /\ pm_op = "none"
    /\ pm_arg = <<FALSE, 0>>
    /\ pm_list = <<>>
    /\ pm_exc = "None"
    /\ pm_payoffs = <<>>
    /\ pm_key = ""

GameIdle ==
    /\ game_pc = "none"
    /\ current_round = 0
    /\ n_rounds = 0
    /\ agents_communicate = FALSE
    /\ choices_made = <<>>
    /\ history = <<>>
    /\ round_number = 0
    /\ turn = 0
    /\ messages = <<>>
    /\ collected = <<>>
    /\ completed = 0
    /\ game_exc = "None"
    /\ stop_conditions = {}
    /\ run_pc = "none"

\* No game yet: no configuration dictionary, no description, no prompt.
ConfigIdle ==
    /\ public_goods_config = [contributionCost |-> RInt(0),
                               multiplicationFactor |-> RInt(0),
                               numAgents |-> 0]
    /\ desc = <<>>
    /\ prompt = [exc |-> "None", values |-> <<>>]

\* The batch script is not running; the results directory holds no file of
\* the base pattern.
\* No process has entered save_results.
SaveIdle ==
    /\ sv_pc = [p \in Savers |-> "idle"]
    /\ sv_next_number = [p \in Savers |-> 0 - 1]

BatchIdle ==
    /\ tr_pc = "idle"
    /\ tr_i = 0
    /\ runs_started = 0
    /\ returncodes = <<>>
    /\ child_saved = FALSE
    /\ files = {}
    /\ written = <<>>
    /\ SaveIdle

ConnectorIdle ==
    /\ env_key = "None"
    /\ provider = "none"
    /\ conn = "none"
    /\ client = FALSE
    /\ max_retries = 0
    /\ retry_delay = 0
    /\ sp_pc = "idle"
    /\ attempt = 0
    /\ calls = 0
    /\ errors = <<>>
    /\ sleeps = <<>>
    /\ sp_result = "None"

InitConnector ==
    /\ env_key \in EnvValues
    /\ provider = "none"
    /\ conn = "none"
    /\ client = FALSE
    /\ max_retries = 0
    /\ retry_delay = 0
    /\ sp_pc = "idle"
    /\ attempt = 0
    /\ calls = 0
    /\ errors = <<>>
    /\ sleeps = <<>>
    /\ sp_result = "None"
    /\ PayoffIdle(0)
    /\ GameIdle
    /\ ConfigIdle
    /\ BatchIdle

NextConnector ==
    \/ \E p \in Providers, mr \in RetryValues, rd \in DelayValues :
          Construct(p, mr, rd)
    \/ SendPromptCall
    \/ AttemptReply
    \/ \E e \in ExceptionsOf(provider) : AttemptRaises(e)

SpecConnector == InitConnector /\ [][NextConnector]_vars

\* contributionCost, multiplicationFactor of the configurations tried.
CostValues == {RInt(10), RInt(3)}

FactorValues == {RInt(2), Rat(1, 2), Rat(3, 2)}

\* Single payoffs and combination keys of a matrix with no agents to score.
InitPayoffCalls ==
    ConnectorIdle /\ GameIdle /\ ConfigIdle /\ BatchIdle /\ PayoffIdle(0)

NextPayoffCalls ==
    \/ \E k \in CostValues, m \in FactorValues, n \in 0..MaxNumAgents :
          PMConstruct(k, m, n)
    \/ \E b \in BOOLEAN, c \in 0..MaxNumAgents : CalculatePayoffCall(b, c)
    \/ \E len \in 0..MaxAgents :
          \E strategies \in ListsOf(StrategyKeys \cup {"strategy3"}, len) :
             GetCombinationKeyCall(strategies)

SpecPayoffCalls == InitPayoffCalls /\ [][NextPayoffCalls]_vars

\* Scoring rounds of 1..MaxAgents agents; numAgents is configured
\* independently of the agents listed.
InitPayoff ==
    /\ ConnectorIdle /\ GameIdle /\ ConfigIdle /\ BatchIdle
    /\ \E n_scored \in 1..MaxAgents : PayoffIdle(n_scored)

NextPayoff ==
    \/ \E k \in {RInt(10)}, m \in {RInt(2), Rat(1, 2)}, n \in 0..MaxAgents :
          PMConstruct(k, m, n)
    \/ \E strategies \in ListsOf(StrategyKeys, Len(scores)) :
          NewRound(strategies)
    \/ AttributeScoresCall
    \/ GetWeightsCall(RoundNames)

SpecPayoff == InitPayoff /\ [][NextPayoff]_vars

\* A strategy key and a strategy name the configuration does not list.
UnknownKey == "strategy3"

UnknownName == "Defect"

StrategyNames == {Strategies[i][2] : i \in 1..Len(Strategies)}

\* Scoring and previewing rounds whose choices need not be configured ones.
InitChoices ==
    ConnectorIdle /\ GameIdle /\ ConfigIdle /\ BatchIdle /\ PayoffIdle(NumPlayers)

NextChoices ==
    \/ \E k \in CostValues : PMConstruct(k, RInt(2), NumPlayers)
    \/ \E strategies \in ListsOf(StrategyKeys \cup {UnknownKey}, Len(scores)) :
          NewRound(strategies)
    \/ AttributeScoresCall
    \/ \E len \in 1..NumPlayers :
          \E strategy_list \in ListsOf(StrategyNames \cup {UnknownName}, len) :
             GetWeightsCall(strategy_list)

SpecChoices == InitChoices /\ [][NextChoices]_vars

\* What the results directory may hold of the base pattern before the
\* batch starts: files numbered 0 and 02, and files whose last part is no
\* number or follows a further underscore.
FileCandidates == {<<"0">>, <<"0", "2">>, <<"o", "l", "d">>,
                   <<"v", "_", "5">>}

InitBatch ==
    /\ ConnectorIdle /\ GameIdle /\ ConfigIdle /\ PayoffIdle(0)
    /\ tr_pc = "idle"
    /\ tr_i = 0
    /\ runs_started = 0
    /\ returncodes = <<>>
    /\ child_saved = FALSE
    /\ files \in SUBSET FileCandidates
    /\ written = <<>>
    /\ SaveIdle

NextBatch ==
    \/ MainStart
    \/ StartRun
    \/ SaveResults
    \/ \E returncode \in {0, 1} : ChildExits(returncode)
    \/ \E yes \in BOOLEAN : Answer(yes)
    \/ LoopEnd

SpecBatch == InitBatch /\ [][NextBatch]_vars

\* Runner processes started at the same time on one results directory, each
\* reaching save_results once.
InitConcurrentSave == InitBatch

NextConcurrentSave ==
    \/ \E p \in Savers : ScanResults(p)
    \/ \E p \in Savers : WriteResults(p)

SpecConcurrentSave == InitConcurrentSave /\ [][NextConcurrentSave]_vars

\* A game of NumPlayers agents; numAgents of public_goods_config is
\* configured independently of them.
InitGame ==
    ConnectorIdle /\ PayoffIdle(NumPlayers) /\ GameIdle /\ ConfigIdle /\ BatchIdle

NextGame ==
    \/ \E rounds \in 1..MaxRounds, communicate \in BOOLEAN,
          stops \in StopValues,
          m \in {RInt(2), Rat(1, 2)}, n \in {0, NumPlayers, NumPlayers + 1} :
          GameConstruct(rounds, communicate, stops, RInt(10), m, n)
    \/ RunRoundCall
    \/ \E replied \in BOOLEAN : Communicate(replied)
    \/ \E replied \in BOOLEAN, key \in StrategyKeys : Choose(replied, key)
    \/ AppendChoices
    \/ ScoreRound
    \/ UpdateRoundHistory
    \/ AfterRound

SpecGame == InitGame /\ [][NextGame]_vars

\* A game, the descriptions it returns, what a caller does with them, and
\* the prompts built afterwards.
InitDescription == InitGame

NextDescription ==
    \/ \E rounds \in 1..MaxRounds, k \in CostValues, n \in 1..NumPlayers :
          GameConstruct(rounds, FALSE, {}, k, RInt(2), n)
    \/ DescriptionCall
    \/ \E value \in 1..MaxRounds : SetItem(value)
    \/ \E n \in 0..NumPlayers : SetNestedItem("numAgents", n)
    \/ \E k \in CostValues : SetNestedItem("contributionCost", k)
    \/ \E m \in FactorValues : SetNestedItem("multiplicationFactor", m)
    \/ CreatePromptCall

SpecDescription == InitDescription /\ [][NextDescription]_vars

\* A game whose configuration dictionary a caller edits between rounds
\* through the dict that description returned; the payoff matrix keeps the
\* numbers it copied in __init__.
InitReconfigured == InitGame

NextReconfigured ==
    \/ \E communicate \in BOOLEAN, n \in {0, NumPlayers} :
          GameConstruct(MaxRounds, communicate, {}, RInt(10), RInt(2), n)
    \/ DescriptionCall
    \/ \E n \in {0, NumPlayers} :
          game_pc = "idle" /\ SetNestedItem("numAgents", n)
    \/ RunRoundCall
    \/ \E replied \in BOOLEAN : Communicate(replied)
    \/ \E replied \in BOOLEAN, key \in StrategyKeys : Choose(replied, key)
    \/ AppendChoices
    \/ ScoreRound
    \/ UpdateRoundHistory
    \/ AfterRound

SpecReconfigured == InitReconfigured /\ [][NextReconfigured]_vars

(***************************************************************************)
(* Properties                                                              *)
(***************************************************************************)

\* The transient errors of the retry policy: rate-limit, API error, timeout,
\* connection failure, and an HTTP error that carries its response.
TransientError(e) ==
    \/ e.type \in {"RateLimitError", "APIError", "APITimeoutError", "Timeout",
                   "ConnectionError"}
    \/ e.type = "HTTPError" /\ e.has_response

OnlyTransientErrors == \A i \in 1..Len(errors) : TransientError(errors[i])

NonTransientError(e) ==
    e.type \notin {"RateLimitError", "APIError", "APITimeoutError", "HTTPError",
                   "Timeout", "ConnectionError"}

C3_NoCredentialNoConnector ==
    env_key = "None" =>
        /\ conn \in {"none", "EnvironmentError"}
        /\ provider # "none" => conn = "EnvironmentError"
        /\ ~client
        /\ sp_pc = "idle"
        /\ calls = 0

C3_Witness ==
    env_key = "None" /\ provider = "mistral" /\ conn = "EnvironmentError"

\* C4: for 0 <= c <= n (n >= 1), calculate_payoff(agent_contributed, c) is
\* c*k*m/n - k for a contributor and c*k*m/n otherwise, negative results
\* included; 0 for a free-rider at c = 0, k*(m-1) for a contributor at c = n,
\* and for n=4, k=10, m=2: -5/5 at c=1, 0/10 at c=2, 10 at c=4.
C4_PayoffFormula ==
    (pm_op = "calculate_payoff" /\ num_agents >= 1 /\ pm_arg[2] <= num_agents)
    => /\ pm_exc = "None"
       /\ Len(pm_payoffs) = 1
       /\ LET p == pm_payoffs[1]
              b == pm_arg[1]
              c == pm_arg[2]
              k == contribution_cost
              m == multiplication_factor
              n == num_agents
          IN  /\ p[2] > 0
              /\ p[1] * (k[2] * m[2] * n) =
                   p[2] * (c * k[1] * m[1] - (IF b THEN k[1] * m[2] * n ELSE 0))
              /\ (~b /\ c = 0) => p = <<0, 1>>
              /\ (b /\ c = n) =>
                   p[1] * (k[2] * m[2]) = p[2] * (k[1] * (m[1] - m[2]))
              /\ (n = 4 /\ k = <<10, 1>> /\ m = <<2, 1>>) =>
                   /\ (b /\ c = 1) => p = <<0 - 5, 1>>
                   /\ (~b /\ c = 1) => p = <<5, 1>>
                   /\ (b /\ c = 2) => p = <<0, 1>>
                   /\ (~b /\ c = 2) => p = <<10, 1>>
                   /\ (b /\ c = 4) => p = <<10, 1>>

C4_Witness ==
    /\ pm_op = "calculate_payoff"
    /\ num_agents = 4
    /\ contribution_cost = <<10, 1>>
    /\ multiplication_factor = <<2, 1>>
    /\ pm_arg = <<TRUE, 1>>
    /\ pm_payoffs = << <<0 - 5, 1>> >>

\* The payoffs the agents hold last, in agent order.
LastScores == [i \in 1..Len(scores) |-> scores[i][Len(scores[i])]]

\* C5, as claimed: in every round attribute_scores scores, the payoffs it
\* appends sum to c*k*(m-1), whatever numAgents is configured.
C5_PayoffsSumToSurplus ==
    (pm_op = "attribute_scores" /\ pm_exc = "None")
    => LET total == RSum(LastScores)
           c == Cardinality({i \in 1..Len(round_strategies) :
                               round_strategies[i] = "strategy1"})
           k == contribution_cost
           m == multiplication_factor
       IN  total[1] * (k[2] * m[2]) = total[2] * (c * k[1] * (m[1] - m[2]))

\* C6: attribute_scores appends to every agent exactly one score, the payoff
\* of the choice at that agent's position, and get_weights_for_combination
\* returns one payoff per entry of its list, the i-th being that of the i-th
\* entry.
C6_OnePayoffPerAgentInOrder ==
    /\ [][(pm_op' = "attribute_scores" /\ pm_exc' = "None") =>
            /\ Len(scores') = Len(scores)
            /\ \A i \in 1..Len(scores) :
                 scores'[i] =
                   Append(scores[i],
                          calculate_payoff(
                              round_strategies[i] = "strategy1",
                              Cardinality({j \in 1..Len(round_strategies) :
                                  round_strategies[j] = "strategy1"})))]_vars
    /\ [](pm_op = "get_weights_for_combination" /\ pm_exc = "None" =>
            /\ Len(pm_payoffs) = Len(pm_list)
            /\ \A i \in 1..Len(pm_list) :
                 pm_payoffs[i] =
                   calculate_payoff(
                       pm_list[i] = "Contribute",
                       Cardinality({j \in 1..Len(pm_list) :
                                      pm_list[j] = "Contribute"})))

C6_Witness ==
    /\ pm_op = "attribute_scores"
    /\ pm_exc = "None"
    /\ round_strategies = <<"strategy1", "strategy2", "strategy2">>
    /\ \A i \in 1..3 : Len(scores[i]) = 1
    /\ scores[1][1] # scores[2][1]
    /\ scores[2][1] = scores[3][1]

\* The decimal numeral of a natural number.
RECURSIVE Decimal(_)
Decimal(n) ==
    LET digit == <<"0", "1", "2", "3", "4", "5", "6", "7", "8", "9">>
    IN  IF n < 10 THEN digit[n + 1]
        ELSE Decimal(n \div 10) \o digit[(n % 10) + 1]

\* C7: the key get_combination_key returns is
\* 'combination_<c>_contributors' with c the number of entries equal to the
\* contribute key, and every permutation of the list gets the same key.
C7_KeyCountsContributors ==
    pm_op = "get_combination_key"
    => /\ pm_key = "combination_"
                   \o Decimal(Cardinality({i \in 1..Len(pm_list) :
                                             pm_list[i] = "strategy1"}))
                   \o "_contributors"
       /\ \A q \in Permutations(1..Len(pm_list)) :
            get_combination_key([i \in 1..Len(pm_list) |-> pm_list[q[i]]])
              = pm_key

C7_Witness ==
    /\ pm_op = "get_combination_key"
    /\ pm_list = <<"strategy2", "strategy1", "strategy1">>
    /\ pm_key = "combination_2_contributors"

\* C8, as claimed: a configuration with numAgents = 0 is rejected when the
\* payoff matrix is constructed, and never fails later, at payoff time.
C8_ZeroAgentsRejectedAtConstruction ==
    /\ pm_made => num_agents # 0
    /\ pm_exc # "ZeroDivisionError"

\* C9: get_weights_for_combination changes no agent's scores and nothing of
\* the payoff matrix, and for the strategy names of a round it returns, in
\* order, the payoffs attribute_scores appends for that round's keys,
\* whether the round is scored after the call or was scored before it.
C9_PreviewMatchesScoring ==
    /\ [][pm_op' = "get_weights_for_combination" =>
            UNCHANGED <<scores, pm_made, contribution_cost,
                        multiplication_factor, num_agents>>]_vars
    /\ [][(/\ pm_op = "get_weights_for_combination"
           /\ pm_exc = "None"
           /\ pm_list = RoundNames
           /\ pm_op' = "attribute_scores"
           /\ pm_exc' = "None") =>
            \A i \in 1..Len(scores) :
                scores'[i] = Append(scores[i], pm_payoffs[i])]_vars
    /\ [](( /\ pm_op = "get_weights_for_combination"
            /\ pm_exc = "None"
            /\ round_scored
            /\ Len(pm_list) > 0
            /\ pm_list = RoundNames) =>
            /\ Len(pm_payoffs) = Len(scores)
            /\ pm_payoffs = LastScores)

C9_Witness ==
    /\ pm_op = "get_weights_for_combination"
    /\ pm_exc = "None"
    /\ round_scored
    /\ pm_list = <<"Contribute", "Free-ride", "Contribute">>
    /\ pm_payoffs[1] # pm_payoffs[2]
    /\ pm_payoffs = LastScores

\* C10, as claimed: the current-round counter is 1 after construction and
\* every completed run_round call increments it, so between rounds it is one
\* more than the number of completed calls, and the j-th round is played
\* under round number j.
C10_CounterCountsCompletedRounds ==
    /\ game_pc = "idle" => current_round = completed + 1
    /\ \A j \in 1..Len(history) : history[j].round = j

\* C11: the Round Records only grow by appending.  A step either leaves the
\* history as it is or completes a run_round and appends exactly one record
\* to it, every earlier record staying in place; every completed run_round
\* appends one; and whenever no round is in progress the number of records
\* is the number of rounds completed.
C11_HistoryAppendOnly ==
    /\ [][/\ \/ history' = history
             \/ /\ completed' = completed + 1
                /\ Len(history') = Len(history) + 1
                /\ SubSeq(history', 1, Len(history)) = history
          /\ completed' = completed + 1 => Len(history') = Len(history) + 1]_vars
    /\ [](game_pc \in {"idle", "raised"} => Len(history) = completed)

\* Two rounds completed, two records, the loop between rounds.
C11_Witness ==
    /\ game_pc = "idle"
    /\ completed = 2
    /\ Len(history) = 2
    /\ history[1].strategies # history[2].strategies

\* The choices of the i-th completed round match a stop condition.
StoppedBy(i) == history[i].strategies \in stop_conditions

\* C12: the game runs rounds until the round just played matches a stop
\* condition or n_rounds rounds have completed, and then it is finished.
\* No more than n_rounds rounds are executed; only the last completed round
\* can match a stop condition, so a match in round 1 ends the game after
\* exactly one round; the loop goes on only while neither holds; and a
\* finished game starts no further round.
C12_RunsUntilStopOrNRounds ==
    /\ [](game_pc # "none" => completed <= n_rounds)
    /\ [](\A i \in 1..Len(history) : StoppedBy(i) => i = completed)
    /\ [](completed >= 1 /\ StoppedBy(1) => completed = 1)
    /\ [](run_pc = "finished" =>
             /\ completed >= 1
             /\ StoppedBy(completed) \/ completed = n_rounds)
    /\ [](run_pc = "head" /\ completed >= 1 =>
             ~StoppedBy(completed) /\ completed < n_rounds)
    /\ [][run_pc = "finished" => run_pc' = "finished" /\ game_pc' = "idle"]_vars

\* A game of two rounds with universal free-riding as its stop condition,
\* finished after one round in which every agent free-rode.
C12_Witness ==
    /\ run_pc = "finished"
    /\ n_rounds = 2
    /\ completed = 1
    /\ stop_conditions = {AllChoose("strategy2")}
    /\ history[1].strategies = AllChoose("strategy2")

\* C14: a connector failure raised for one agent during a round leaves
\* run_round at once.  The step in which it is raised changes neither
\* choices_made nor any score history nor the game history, so all three
\* still hold the completed rounds only; the agents after the failing one
\* are not asked; and no step of the game follows the failure.
C14_ConnectorFailureAbortsRun ==
    /\ [][game_exc = "None" /\ game_exc' = "ProviderError" =>
             /\ game_pc' = "raised"
             /\ choices_made' = choices_made
             /\ scores' = scores
             /\ history' = history
             /\ collected' = collected]_vars
    /\ [](game_exc = "ProviderError" =>
             /\ Len(choices_made) = completed
             /\ Len(history) = completed
             /\ \A i \in 1..Len(scores) : Len(scores[i]) = completed
             /\ Len(collected) < NumPlayers)
    /\ [][game_exc # "ProviderError"]_vars

\* The second agent's connector fails in the choice phase of the second
\* round, after the first agent has chosen.
C14_Witness ==
    /\ game_pc = "raised"
    /\ game_exc = "ProviderError"
    /\ completed = 1
    /\ Len(collected) = 1
    /\ Len(choices_made) = 1

\* C20: between rounds every agent of the game has one score per completed
\* round.  The score histories change only in the scoring step of run_round,
\* which appends exactly one payoff to every agent and alters no earlier
\* score; and whenever no round is in progress each history is as long as
\* the number of completed rounds.
C20_ScoresPerCompletedRound ==
    /\ [][scores' # scores =>
             /\ game_pc = "appended"
             /\ game_pc' = "scored"
             /\ Len(scores') = Len(scores)
             /\ \A i \in 1..Len(scores) :
                   /\ Len(scores'[i]) = Len(scores[i]) + 1
                   /\ SubSeq(scores'[i], 1, Len(scores[i])) = scores[i]]_vars
    /\ [](game_pc = "idle" =>
             /\ Len(scores) = NumPlayers
             /\ \A i \in 1..Len(scores) : Len(scores[i]) = completed)

\* Two rounds completed, in which the first agent contributed and the
\* second contributed once: two scores each.
C20_Witness ==
    /\ game_pc = "idle"
    /\ completed = 2
    /\ \A i \in 1..Len(scores) : Len(scores[i]) = 2
    /\ history[1].strategies[1] = "strategy1"
    /\ history[1].strategies[2] = "strategy2"
    /\ history[2].strategies = AllChoose("strategy1")

\* The configuration the game was constructed with, as its payoff matrix
\* holds it.
ConstructedConfig ==
    [contributionCost |-> contribution_cost,
     multiplicationFactor |-> multiplication_factor,
     numAgents |-> num_agents]

\* C13, as claimed: the dict description returns shares no mutable state
\* with the game.  Whatever the caller assigns in it, also in its nested
\* public_goods_config, the game still reads the configuration and the
\* round count it was constructed with, and every prompt built afterwards
\* carries the constructed cost, factor and number of agents.
C13_DescriptionIsSnapshot ==
    game_pc = "idle" =>
        /\ public_goods_config = ConstructedConfig
        /\ \A i \in 1..Len(prompt.values) :
              /\ prompt.values[i].contributionCost = contribution_cost
              /\ prompt.values[i].multiplicationFactor = multiplication_factor
              /\ prompt.values[i].numAgents = num_agents
        /\ prompt.exc = "None"

\* C15, as claimed: a choice that is none of the configured strategies is
\* never scored.  get_weights_for_combination given a name the
\* configuration does not list raises and returns no payoffs, and
\* attribute_scores given a key the configuration does not list raises and
\* leaves the round unscored.
C15_UnmappedChoiceAborts ==
    /\ (/\ pm_op = "get_weights_for_combination"
         /\ \E i \in 1..Len(pm_list) : pm_list[i] \notin StrategyNames)
          => pm_exc # "None" /\ pm_payoffs = <<>>
    /\ (/\ pm_op = "attribute_scores"
         /\ \E i \in 1..Len(round_strategies) :
               round_strategies[i] \notin StrategyKeys)
          => pm_exc # "None" /\ ~round_scored

\* C16, as claimed: the batch script runs the game 10 times.  When the
\* completion message is printed and every run has exited with code 0,
\* exactly 10 runs were started, each after the one before it had ended.
C16_TenRunsBeforeCompleted ==
    /\ tr_pc = "child" => runs_started = Len(returncodes) + 1
    /\ tr_pc # "child" => runs_started = Len(returncodes)
    /\ (/\ tr_pc = "completed"
         /\ \A j \in 1..Len(returncodes) : returncodes[j] = 0)
          => runs_started = 10

\* The part of a file's name after its last underscore.
LastPart(rest) ==
    LET underscores == {i \in 1..Len(rest) : rest[i] = "_"}
    IN  IF underscores = {} THEN rest
        ELSE SubSeq(rest, (CHOOSE i \in underscores :
                             \A j \in underscores : j <= i) + 1, Len(rest))

\* The numeral of n < 100 as a file name carries it.
Numeral(n) ==
    LET digit == <<"0", "1", "2", "3", "4", "5", "6", "7", "8", "9">>
    IN  IF n < 10 THEN <<digit[n + 1]>>
        ELSE <<digit[(n \div 10) + 1], digit[(n % 10) + 1]>>

\* The numeric suffixes of a set of files: n is one when a file's last part
\* is the numeral of n, possibly behind leading zeros.
NumericSuffixes(fs) ==
    {n \in 0..99 : \E f \in fs : LastPart(f) \in
        {Numeral(n), <<"0">> \o Numeral(n), <<"0", "0">> \o Numeral(n)}}

\* One more than the largest numeric suffix, 0 when there is none.
NextFree(fs) ==
    IF NumericSuffixes(fs) = {} THEN 0
    ELSE (CHOOSE m \in NumericSuffixes(fs) :
            \A x \in NumericSuffixes(fs) : x <= m) + 1

\* The files that were there before the first run wrote one.
FilesBefore == files \ {written[j] : j \in 1..Len(written)}

\* C17: save_results numbers the result files.  Every file it writes is
\* named by one more than the largest numeric suffix among the files of the
\* base pattern existing then (0 when there is none), that name is not an
\* existing file's, and no existing file goes away; so the runs of a
\* sequence write consecutive numbers, 0, 1, 2, ... when no numbered file
\* was there before.
C17_SuffixIsNextFree ==
    /\ [][written' # written =>
             /\ written' = Append(written, Numeral(NextFree(files)))
             /\ Numeral(NextFree(files)) \notin files
             /\ files' = files \cup {Numeral(NextFree(files))}]_vars
    /\ [][files \subseteq files']_vars
    /\ [](\A j \in 1..Len(written) :
             written[j] = Numeral(NextFree(FilesBefore) + j - 1))
    /\ [](NumericSuffixes(FilesBefore) = {} =>
             \A j \in 1..Len(written) : written[j] = Numeral(j - 1))

\* Three runs one after another, the first of which found files numbered 02
\* and v_5 and one that carries no number: they wrote 6, 7 and 8.
C17_Witness ==
    /\ FilesBefore = {<<"0", "2">>, <<"o", "l", "d">>, <<"v", "_", "5">>}
    /\ written = << <<"6">>, <<"7">>, <<"8">> >>
    /\ \A j \in 1..Len(returncodes) : returncodes[j] = 0

\* A rate-limit error: RateLimitError, or an HTTP error with status 429.
RateLimit(e) ==
    \/ e.type = "RateLimitError"
    \/ e.type = "HTTPError" /\ e.has_response /\ e.status = 429

Min(a, b) == IF a <= b THEN a ELSE b

\* The caps at which a doubling wait could be held: the base delay times a
\* power of two.
BackoffCaps == {retry_delay * (2 ^ a) : a \in 0..MaxRetries}

C19_OtherTransientWaitsBaseDelay ==
    \A i \in 1..Len(sleeps) :
        (TransientError(errors[i]) /\ ~RateLimit(errors[i]))
            => sleeps[i] = retry_delay

\* A Mistral call whose fourth failure is a server error, after three
\* earlier retried failures: its wait is the base delay.
C19_Witness ==
    /\ provider = "mistral"
    /\ retry_delay = 2
    /\ Len(sleeps) = 4
    /\ errors[1].type = "Timeout"
    /\ RateLimit(errors[3])
    /\ errors[4].type = "HTTPError" /\ errors[4].status = 503
    /\ sleeps[4] = 2

\* C21: within one round the steps happen in a fixed order and the round
\* completes before the next one starts.  With communication enabled every
\* agent has sent its message before any choice is collected, and no message
\* is sent once a choice was collected; the scores change only when the
\* choices of all the agents are collected; the Round Record is appended
\* only after every agent holds the score of that round; and a round starts
\* only between rounds, when choices_made, the score histories and the game
\* history all hold exactly the completed rounds.
C21_RoundStepsInOrder ==
    /\ [](collected # <<>> =>
             Len(messages) = IF agents_communicate THEN NumPlayers ELSE 0)
    /\ [][messages' # messages /\ messages' # <<>> =>
             collected = <<>> /\ collected' = <<>>]_vars
    /\ [][scores' # scores =>
             Len(collected) = NumPlayers /\ collected' = collected]_vars
    /\ [][history' # history =>
             /\ scores' = scores
             /\ \A i \in 1..Len(scores) : Len(scores[i]) = Len(history) + 1
             /\ history'[Len(history')].strategies = collected]_vars
    /\ [][/\ game_pc \notin {"communicate", "choose"}
          /\ game_pc' \in {"communicate", "choose"}
          => /\ game_pc = "idle"
             /\ Len(choices_made) = completed
             /\ Len(history) = completed
             /\ \A i \in 1..Len(scores) : Len(scores[i]) = completed]_vars

\* Two rounds completed with communication enabled: each record holds the
\* messages of all the agents and their choices.
C21_Witness ==
    /\ game_pc = "idle"
    /\ agents_communicate
    /\ completed = 2
    /\ \A j \in 1..2 : Len(history[j].messages) = NumPlayers
    /\ history[1].strategies = AllChoose("strategy1")
    /\ history[2].strategies # history[1].strategies

\* C22, as claimed: every send_prompt call that returns normally returns the
\* text of a provider reply obtained by a provider call made within that
\* call, whatever max_retries is (0 and negative values included).
C22_ReturnIsProviderReply ==
    sp_pc = "returned" => sp_result = "reply" /\ calls >= 1

\* C23, as claimed: after any sequence of run_round calls, whether each
\* returned normally or raised an error, choices_made has as many entries as
\* the game history has records: a round whose scoring or history update
\* fails leaves no entry in choices_made.
C23_ChoicesMatchHistory ==
    game_pc \in {"idle", "raised"} => Len(choices_made) = Len(history)

\* The configuration a prompt's placeholder values were computed from.
PromptConfig(v) ==
    [contributionCost |-> v.contributionCost,
     multiplicationFactor |-> v.multiplicationFactor,
     numAgents |-> v.numAgents]

\* C24: the worked examples of a prompt built from the configuration the
\* payoff matrix holds agree with the payoffs of the game:
\* netGainIfAllContribute is calculate_payoff(True, numAgents),
\* soloContributionNet is calculate_payoff(True, 1) and
\* soloContributionReturn is calculate_payoff(False, 1); and in a game with
\* numAgents agents a round in which every agent contributed is scored
\* netGainIfAllContribute for each of them.
C24_ExamplesMatchPayoffs ==
    prompt.values # <<>> /\ PromptConfig(prompt.values[1]) = ConstructedConfig
    => LET v == prompt.values[1]
       IN  /\ v.netGainIfAllContribute = calculate_payoff(TRUE, num_agents)
           /\ v.soloContributionNet = calculate_payoff(TRUE, 1)
           /\ v.soloContributionReturn = calculate_payoff(FALSE, 1)
           /\ (/\ game_pc \in {"scored", "idle"}
               /\ num_agents = NumPlayers
               /\ collected = AllChoose(contribute_key))
              => \A i \in 1..Len(scores) :
                    scores[i][Len(scores[i])] = v.netGainIfAllContribute

\* A game configured for three agents with factor 1/2: the prompts of a
\* completed round showed a net loss of 5 when all contribute, and a solo
\* contribution returning 5/3 to everyone.
C24_Witness ==
    /\ game_pc = "idle"
    /\ completed = 1
    /\ prompt.values # <<>>
    /\ PromptConfig(prompt.values[1]) = ConstructedConfig
    /\ num_agents = NumPlayers + 1
    /\ prompt.values[1].netGainIfAllContribute = RInt(0 - 5)
    /\ prompt.values[1].soloContributionReturn = Rat(5, 3)
    /\ prompt.values[1].soloContributionNet = Rat(0 - 25, 3)

\* C25, as claimed: when save_results invocations with the same base
\* filename pattern run at the same time, in every interleaving of their
\* directory scans and file writes they write to distinct filenames, so no
\* result file overwrites another.
C25_ConcurrentSavesDistinct ==
    \A p, q \in Savers :
        (p # q /\ sv_pc[p] = "written" /\ sv_pc[q] = "written") =>
            /\ str(sv_next_number[p]) # str(sv_next_number[q])
            /\ Cardinality({written[i] : i \in 1..Len(written)}) = Len(written)

====
